---- MODULE Spec2Model ----
(***************************************************************************)
(* Model of the audit-execution-and-caching pipeline of seo-lighthouse     *)
(* (src/src/utils/lighthouse.ts) and of the callers that drive it.         *)
(*                                                                         *)
(* Strings whose characters matter (URLs, category identifiers) are        *)
(* sequences of UTF-16 code units, so that trim(), the regular expressions *)
(* of processUrl, the URL parser and the default Array.prototype.sort      *)
(* comparison are computed the way the code computes them.  Fixed texts    *)
(* (messages, file-name prefixes) are TLA+ strings.                        *)
(***************************************************************************)
EXTENDS Integers, Sequences, FiniteSets, TLC

\* ------------------------------------------------------------------------
\* Bounds of the model
\* ------------------------------------------------------------------------
MaxCats == 2          \* longest category list drawn for the key computations
MaxRequests == 2      \* requests one caller issues in a behaviour
MaxClock == 1         \* largest value Date.now() returns
MaxWww == 2           \* most leading `www.` prefixes of a raw URL
MaxCalls == 5         \* calls one ReportLoader issues in a behaviour

\* A JavaScript `undefined` (an option the caller left out).
Undefined == "undefined"

\* ------------------------------------------------------------------------
\* Text literals (UTF-16 code units)
\* ------------------------------------------------------------------------
HttpPrefix == <<104, 116, 116, 112, 58, 47, 47>>            \* "http://"
HttpsPrefix == <<104, 116, 116, 112, 115, 58, 47, 47>>      \* "https://"
HttpsUpper == <<72, 84, 84, 80, 83, 58, 47, 47>>            \* "HTTPS://"
WwwPrefix == <<119, 119, 119, 46>>                          \* "www."
WwwUpper == <<87, 87, 87, 46>>                              \* "WWW."
HostA == <<97, 46, 99, 111>>                                \* "a.co"
HostBPath == <<98, 46, 99, 111, 47, 120>>                   \* "b.co/x"
HostSpaced == <<97, 32, 98>>                                \* "a b"
Blank == <<32>>                                             \* " "
EmptyStr == <<>>                                            \* ""

catSeo == <<115, 101, 111>>                                 \* "seo"
catSeoUpper == <<83, 69, 79>>                               \* "SEO"
catPerformance == <<112, 101, 114, 102, 111, 114, 109, 97, 110, 99, 101>>   \* "performance"
catAccessibility == <<97, 99, 99, 101, 115, 115, 105, 98, 105, 108, 105, 116, 121>>   \* "accessibility"
catBestPractices == <<98, 101, 115, 116, 45, 112, 114, 97, 99, 116, 105, 99, 101, 115>>   \* "best-practices"

\* ------------------------------------------------------------------------
\* String helpers of the JavaScript runtime
\* ------------------------------------------------------------------------
\* Case folding of one code unit, as the /i flag and the URL host parser do.
Lower(c) == IF c >= 65 /\ c <= 90 THEN c + 32 ELSE c

LowerStr(s) == [i \in 1..Len(s) |-> Lower(s[i])]

\* White space and line terminators removed by String.prototype.trim.
IsWhite(c) == c \in {9, 10, 11, 12, 13, 32, 160}

RECURSIVE TrimLeft(_)
TrimLeft(s) == IF s # <<>> /\ IsWhite(Head(s)) THEN TrimLeft(Tail(s)) ELSE s

RECURSIVE TrimRight(_)
TrimRight(s) ==
  IF s # <<>> /\ IsWhite(s[Len(s)]) THEN TrimRight(SubSeq(s, 1, Len(s) - 1)) ELSE s

Trim(s) == TrimRight(TrimLeft(s))

\* s starts with prefix p, ignoring letter case.
StartsWithI(s, p) ==
  /\ Len(s) >= Len(p)
  /\ LowerStr(SubSeq(s, 1, Len(p))) = p

Drop(s, n) == SubSeq(s, n + 1, Len(s))

\* A comparison of strings with the letter case folded.
RECURSIVE StrLessFolded(_, _)
StrLessFolded(a, b) ==
  IF b = <<>> THEN FALSE
  ELSE IF a = <<>> THEN TRUE
  ELSE IF Lower(Head(a)) < Lower(Head(b)) THEN TRUE
  ELSE IF Lower(Head(a)) > Lower(Head(b)) THEN FALSE
  ELSE StrLessFolded(Tail(a), Tail(b))

\* The comparison of the default Array.prototype.sort on strings:
\* a sorts before b when a is smaller code unit by code unit.
RECURSIVE StrLess(_, _)
StrLess(a, b) ==
  IF b = <<>> THEN FALSE
  ELSE IF a = <<>> THEN TRUE
  ELSE IF Head(a) < Head(b) THEN TRUE
  ELSE IF Head(a) > Head(b) THEN FALSE
  ELSE StrLess(Tail(a), Tail(b))

RECURSIVE InsertSorted(_, _)
InsertSorted(x, s) ==
  IF s = <<>> THEN <<x>>
  ELSE IF StrLess(x, Head(s)) THEN <<x>> \o s
  ELSE <<Head(s)>> \o InsertSorted(x, Tail(s))

\* Array.prototype.sort() with no comparator.
RECURSIVE SortStrings(_)
SortStrings(s) ==
  IF s = <<>> THEN <<>>
  ELSE InsertSorted(s[Len(s)], SortStrings(SubSeq(s, 1, Len(s) - 1)))

\* ------------------------------------------------------------------------
\* Request Normalizer
\* ------------------------------------------------------------------------
\* /^https?:\/\//i.test(url)
HasScheme(url) == StartsWithI(url, HttpPrefix) \/ StartsWithI(url, HttpsPrefix)

\* url.replace(/^www\./i, '')
StripWww(url) == IF StartsWithI(url, WwwPrefix) THEN Drop(url, Len(WwwPrefix)) ELSE url

processUrlKeepsWww(url) ==
  LET t == Trim(url) IN
    IF HasScheme(t) THEN t ELSE HttpsPrefix \o t

\* A normalizer that prefixes the scheme whatever the string begins with.
processUrlAlwaysPrepend(url) == HttpsPrefix \o StripWww(Trim(url))

processUrl(url) ==
  LET t == Trim(url) IN
    IF HasScheme(t) THEN t ELSE HttpsPrefix \o StripWww(t)

\* Code units that end the authority of an http(s) URL: / \ ? #
IsAuthorityEnd(c) == c \in {47, 92, 63, 35}

\* Code units the URL parser skips between "http(s):" and the authority.
IsSlash(c) == c \in {47, 92}

RECURSIVE SkipSlashes(_)
SkipSlashes(s) == IF s # <<>> /\ IsSlash(Head(s)) THEN SkipSlashes(Tail(s)) ELSE s

RECURSIVE TakeAuthority(_)
TakeAuthority(s) ==
  IF s = <<>> \/ IsAuthorityEnd(Head(s)) THEN <<>>
  ELSE <<Head(s)>> \o TakeAuthority(Tail(s))

\* Forbidden host code points that can occur in the modelled alphabet.
IsForbiddenHostChar(c) == c \in {32, 60, 62, 91, 93, 94, 124}

\* new URL(url) for the URLs processUrl produces (they all start with
\* http:// or https://): the parser trims the input, folds the scheme,
\* skips the slashes, reads the host up to the first / \ ? # and fails on
\* an empty host or on a forbidden host code point.
URLParse(url) ==
  LET t == Trim(url)
      afterScheme == IF StartsWithI(t, HttpsPrefix) THEN Drop(t, 6)
                     ELSE IF StartsWithI(t, HttpPrefix) THEN Drop(t, 5)
                     ELSE <<>>
      host == TakeAuthority(SkipSlashes(afterScheme))
  IN IF ~HasScheme(t) THEN [ok |-> FALSE, hostname |-> <<>>]
     ELSE IF host = <<>> THEN [ok |-> FALSE, hostname |-> <<>>]
     ELSE IF \E i \in 1..Len(host) : IsForbiddenHostChar(host[i])
       THEN [ok |-> FALSE, hostname |-> <<>>]
     ELSE [ok |-> TRUE, hostname |-> LowerStr(host)]

isValidUrlAlways(url) == TRUE

isValidUrl(url) == URLParse(url).ok

\* ------------------------------------------------------------------------
\* Cache key
\* ------------------------------------------------------------------------
\* An optional array or flag is <<>> when the caller left it out and <<v>>
\* when the caller gave v.
None == <<>>

Some(v) == <<v>>

\* JSON.stringify({ url, device, categories }): a property whose value is
\* undefined is left out of the text.
JSONstringifyKey(url, device, categories) ==
  [url |-> url,
   device |-> IF device = Undefined THEN None ELSE Some(device),
   categories |-> categories]

\* crypto.createHash('md5').update(data).digest('hex'): the digest is a
\* function of the serialized text alone; it is taken to be free of
\* collisions on the texts of the model.
md5hex(data) == <<"md5", data>>

\* categories?.sort(): sorts the caller's array in place and yields it.
sortedCategories(categories) ==
  IF categories = None THEN None ELSE Some(SortStrings(categories[1]))

generateCacheKeyUnsorted(options) ==
  md5hex(JSONstringifyKey(options.url, options.device, options.categories))

generateCacheKey(options) ==
  md5hex(JSONstringifyKey(options.url, options.device,
                          sortedCategories(options.categories)))

\* ------------------------------------------------------------------------
\* Paths, files and the external tool
\* ------------------------------------------------------------------------
\* A path is the sequence of its segments; the empty path is the empty
\* string, which JavaScript treats as absent.
HomeDir == <<"home">>

TmpDir == <<"tmp">>

\* A path expansion that leaves the home-directory shorthand in place.
expandHomeDirIdentity(filePath) == filePath

\* expandHomeDir(filePath)
expandHomeDir(filePath) ==
  IF filePath # <<>> /\ Head(filePath) = "~" THEN HomeDir \o Tail(filePath)
  ELSE filePath

\* The reports the audit tool can produce.
Reports == {"R1", "R2"}

\* The text of a file: the JSON text of a report, or text that is not JSON
\* (truncated or otherwise malformed).
JsonText(r) == <<"json", r>>

Garbage == <<"garbage">>

\* JSON.parse(text)
JSONparse(text) ==
  IF text # <<>> /\ text[1] = "json" THEN [ok |-> TRUE, value |-> text[2]]
  ELSE [ok |-> FALSE, value |-> "SyntaxError"]

\* The file at a path: its text, or Absent.
Absent == <<"absent">>

FileAt(fs, path) == IF path \in DOMAIN fs THEN fs[path] ELSE Absent

\* A file that exists but whose read fails (no read permission, a
\* directory, an I/O error).
Unreadable == <<"unreadable">>

\* readFile(path, 'utf-8') yields the text of a file that is there and
\* readable, and throws otherwise.
readFileOk(text) == text # Absent /\ text # Unreadable

PutFile(fs, path, text) ==
  [q \in (DOMAIN fs) \cup {path} |-> IF q = path THEN text ELSE fs[q]]

RemoveFile(fs, path) == [q \in (DOMAIN fs) \ {path} |-> fs[q]]

\* The length of a text, as far as the texts here differ in length: the
\* reports of two runs are of different lengths.
TextSize(text) ==
  IF text = <<>> THEN 0
  ELSE IF text = JsonText("R1") THEN 1
  ELSE 2

\* A file holding the beginning of one text and the end of another.
Mixed == <<"mixed">>

\* The content of a file after `new` is written from offset 0 over `old`
\* without truncation: a shorter text leaves the end of the longer one.
Overwrite(old, new) ==
  IF TextSize(new) >= TextSize(old) THEN new ELSE Mixed

\* ------------------------------------------------------------------------
\* Executable Locator
\* ------------------------------------------------------------------------
potentialPaths ==
  << <<"opt", "homebrew", "bin", "lighthouse">>,
     <<"usr", "local", "bin", "lighthouse">>,
     <<"usr", "bin", "lighthouse">>,
     HomeDir \o <<".npm-global", "bin", "lighthouse">>,
     <<"opt", "homebrew", "lib", "node_modules", "lighthouse", "cli", "index.js">>,
     <<"usr", "local", "lib", "node_modules", "lighthouse", "cli", "index.js">> >>

BareName == <<"lighthouse">>

NotFound == <<"null">>

\* The environment the locator probes: the paths that exist and are
\* executable, the outcome of `which lighthouse` (failed, or the path it
\* printed, <<>> for empty output) and of `lighthouse --version`.
firstCandidate(env) ==
  LET hits == {i \in 1..Len(potentialPaths) : potentialPaths[i] \in env.executable}
  IN IF hits = {} THEN NotFound
     ELSE potentialPaths[CHOOSE i \in hits : \A j \in hits : i <= j]

findLighthousePath(customPath, env) ==
  IF customPath # <<>> /\ expandHomeDir(customPath) \in env.executable
    THEN expandHomeDir(customPath)
  ELSE IF firstCandidate(env) # NotFound THEN firstCandidate(env)
  ELSE IF env.whichOk /\ env.whichOut # <<>> /\ env.whichOut \in env.executable
    THEN env.whichOut
  ELSE IF env.versionOk THEN BareName
  ELSE NotFound

\* ------------------------------------------------------------------------
\* Messages of the errors runLighthouseAudit throws (a message is the
\* sequence of its parts)
\* ------------------------------------------------------------------------
InstallCommand == "npm install -g lighthouse"

InvalidUrlMsg == <<"Invalid URL format">>

ResolutionMsgAsExecution == <<"Lighthouse execution failed: ", "ENOTFOUND">>

ResolutionMsg ==
  <<"No se pudo resolver el dominio. Verifica que la URL exista y sea correcta.">>

NotFoundMsgNoRemedy == <<"Lighthouse CLI not found.">>

NotFoundMsg ==
  <<"Lighthouse CLI not found. Please install it globally: ", InstallCommand>>

ExecFailedPrefix == "Lighthouse execution failed: "

ExecFailedMsg(diag) == <<ExecFailedPrefix, diag>>

\* String.prototype.includes on a message
includes(msg, needle) == \E i \in 1..Len(msg) : msg[i] = needle

\* ReportLoader: error.message.includes('npm install -g lighthouse')
isInstallError(msg) == includes(msg, InstallCommand)

\* ------------------------------------------------------------------------
\* Audit Runner: the command line
\* ------------------------------------------------------------------------
\* categories.join(',')
RECURSIVE Join(_)
Join(list) ==
  IF list = <<>> THEN <<>>
  ELSE IF Len(list) = 1 THEN list[1]
  ELSE list[1] \o <<44>> \o Join(Tail(list))

DefaultCategories == <<catPerformance, catAccessibility, catBestPractices, catSeo>>

PresetDesktop == <<"--preset=desktop">>

\* A command that carries the desktop preset for every device.
buildCommandAlwaysPreset(finalLighthousePath, formattedUrl, tempReportPath, categories, device) ==
  << <<"path", finalLighthousePath>>,
     <<"url", formattedUrl>>,
     <<"--output=json">>,
     <<"--output-path=", tempReportPath>>,
     <<"--only-categories=", Join(categories)>>,
     <<"--quiet">>,
     <<"--disable-full-page-screenshot">>,
     <<"--throttling-method=devtools">>,
     <<"--chrome-flags=--headless --no-sandbox --disable-gpu --disable-web-security">>,
     PresetDesktop >>

buildCommand(finalLighthousePath, formattedUrl, tempReportPath, categories, device) ==
  << <<"path", finalLighthousePath>>,
     <<"url", formattedUrl>>,
     <<"--output=json">>,
     <<"--output-path=", tempReportPath>>,
     <<"--only-categories=", Join(categories)>>,
     <<"--quiet">>,
     <<"--disable-full-page-screenshot">>,
     <<"--throttling-method=devtools">>,
     <<"--chrome-flags=--headless --no-sandbox --disable-gpu --disable-web-security">> >>
  \o (IF device = "desktop" THEN <<PresetDesktop>> ELSE <<>>)

\* nodePath.join(outputDir, fileName)
\* A cache file name that leaves the key out.
cacheFileNameNoKey(cacheKey) == <<"lighthouse-cache-", <<>>, ".json">>

cacheFileName(cacheKey) == <<"lighthouse-cache-", cacheKey, ".json">>

tempFileName(timestamp) == <<"lighthouse-report-", timestamp, ".json">>

\* The value of Date.now() in the name of a temporary file.
timestampOf(tempReportPath) == tempReportPath[2][2]

pathJoin(dir, name) == <<dir, name>>

\* A destructuring with no default for device.
deviceOfNoDefault(o) == o.device

\* Lines 156-163 and 165: the defaults of the destructuring and the
\* normalized URL.
deviceOf(o) == IF o.device = Undefined THEN "mobile" ELSE o.device

categoriesOf(o) == IF o.categories = None THEN DefaultCategories ELSE o.categories[1]

forceOfIgnored(o) == FALSE

forceOf(o) == IF o.force = None THEN FALSE ELSE o.force[1]

outputDirOf(o) == expandHomeDir(IF o.outputPath # <<>> THEN o.outputPath ELSE TmpDir)

\* Line 185: the key of a request, computed over the normalized URL and the
\* defaulted device and categories.
cacheKeyOf(o) ==
  generateCacheKey([url |-> processUrl(o.url), device |-> deviceOf(o),
                    categories |-> Some(categoriesOf(o))])

cachePathOf(o) == pathJoin(outputDirOf(o), cacheFileName(cacheKeyOf(o)))

\* ------------------------------------------------------------------------
\* State
\* ------------------------------------------------------------------------
VARIABLES
  pc,            \* per caller: the await runLighthouseAudit is suspended at
  options,       \* per caller: the options object passed to the call
  loc,           \* per caller: the local variables of the call
  result,        \* per caller: what the call returned or threw
  log,           \* per caller: the external operations the call has invoked
  nreq,          \* per caller: the number of calls issued
  files,         \* the files of the output directories: path -> text
  dirs,          \* the directories that exist
  now,           \* the last value Date.now() returned
  filesAtStart,  \* history: per caller, `files` when the call began
  firstReport,   \* history: cache path -> report of the first successful run
  populatedBefore, \* history: per caller, the path had such a run before the call
  onlyNonForced, \* history: no call so far asked for force
  fnArgs,        \* arguments of the pure-function evaluations
  fnRes          \* results of the pure-function evaluations

vars == <<pc, options, loc, result, log, nreq, files, dirs, now, filesAtStart,
          firstReport, populatedBefore, onlyNonForced, fnArgs, fnRes>>

pipelineVars == <<pc, options, loc, result, log, nreq, files, dirs, now,
                  filesAtStart, firstReport, populatedBefore, onlyNonForced>>

fnVars == <<fnArgs, fnRes>>

Callers == {"c1", "c2"}

\* The pipeline is invoked by a single caller per user action.
SeqCallers == {"c1"}

CustomLighthousePath == <<"~", "bin", "lh">>

\* The requests the callers issue.
PipelineOptions ==
  [url : {EmptyStr, WwwPrefix \o HostA},
   outputPath : {<<>>},
   lighthousePath : {<<>>},
   device : {Undefined, "desktop"},
   categories : {Some(<<catSeo, catPerformance>>)},
   force : {None, Some(TRUE)}]

\* The environments the locator can find itself in.
LocatorEnvs ==
  [executable : {{}, {potentialPaths[2]}},
   whichOk : {FALSE},
   whichOut : {<<>>},
   versionOk : {FALSE}]

\* What the child process can do: how it ends, and the artifact it leaves at
\* the output path (Absent: it wrote nothing there).
ExecOutcomes ==
  [exit : {"ok"}, artifact : {Absent, Garbage} \cup {JsonText(r) : r \in Reports}]
  \cup [exit : {"nonzero", "timeout"}, artifact : {Absent, Garbage}]
  \cup [exit : {"spawn"}, artifact : {Absent}]

\* execPromise resolves only when the child process exits with code 0; a
\* non-zero exit, a kill after the timeout and a spawn failure reject it.
execSucceededAnyExit(exit) == exit \in {"ok", "nonzero"}

execSucceeded(exit) == exit = "ok"

execDiag(exit) ==
  IF exit = "nonzero" THEN "Command failed (exit code)"
  ELSE IF exit = "timeout" THEN "Command failed (killed after timeout)"
  ELSE "spawn failed"

NoOptions ==
  [url |-> EmptyStr, outputPath |-> <<>>, lighthousePath |-> <<>>,
   device |-> Undefined, categories |-> None, force |-> None]

NoEnv ==
  [executable |-> {}, whichOk |-> FALSE, whichOut |-> <<>>, versionOk |-> FALSE]

NoLoc ==
  [formattedUrl |-> <<>>, device |-> Undefined, categories |-> <<>>,
   force |-> FALSE, dnsOk |-> "none", outputDir |-> <<>>, cacheKey |-> <<>>,
   cachePath |-> <<>>, finalLighthousePath |-> <<>>, tempReportPath |-> <<>>,
   command |-> <<>>, exit |-> "none", reportContent |-> <<>>,
   given |-> NoOptions, cached |-> <<"unread">>, artifact |-> <<"none">>,
   env |-> NoEnv]

NoResult ==
  [status |-> "none", message |-> <<>>, reportPath |-> <<>>,
   report |-> "none", fromCache |-> FALSE]

Thrown(msg) == [NoResult EXCEPT !.status = "error", !.message = msg]

Returned(path, report, fromCache) ==
  [NoResult EXCEPT !.status = "ok", !.reportPath = path, !.report = report,
                   !.fromCache = fromCache]

PipelineInitWith(fs) ==
  /\ pc = [p \in Callers |-> "idle"]
  /\ options = [p \in Callers |-> NoOptions]
  /\ loc = [p \in Callers |-> NoLoc]
  /\ result = [p \in Callers |-> NoResult]
  /\ log = [p \in Callers |-> <<>>]
  /\ nreq = [p \in Callers |-> 0]
  /\ files = fs
  /\ dirs = {TmpDir}
  /\ now = 0
  /\ filesAtStart = [p \in Callers |-> <<>>]
  /\ firstReport = <<>>
  /\ populatedBefore = [p \in Callers |-> FALSE]
  /\ onlyNonForced = TRUE

PipelineInit == PipelineInitWith(<<>>)

\* The output directory is empty when the first call begins, or holds a
\* cache file left there unreadable.
PreexistingPath ==
  cachePathOf([NoOptions EXCEPT !.url = HostA,
                                !.categories = Some(<<catSeo, catPerformance>>)])

InitialFiles == {<<>>, PutFile(<<>>, PreexistingPath, Unreadable)}

Init ==
  /\ \E fs \in InitialFiles : PipelineInitWith(fs)
  /\ fnArgs = <<>>
  /\ fnRes = <<>>

\* ------------------------------------------------------------------------
\* runLighthouseAudit, one action per await
\* ------------------------------------------------------------------------
Invoke(p, op) == log' = [log EXCEPT ![p] = Append(@, op)]

\* A failure that sends the call back to the DNS check.
ThrowAndRetry(p, msg) ==
  /\ pc' = [pc EXCEPT ![p] = "dns"]
  /\ result' = [result EXCEPT ![p] = Thrown(msg)]

Throw(p, msg) ==
  /\ pc' = [pc EXCEPT ![p] = "failed"]
  /\ result' = [result EXCEPT ![p] = Thrown(msg)]

\* Lines 156-174: the call begins; the URL is normalized and validated and
\* the DNS resolution of its hostname is issued.
StartWith(p, o) ==
  /\ pc[p] \in {"idle", "done", "failed"}
  /\ nreq[p] < MaxRequests
  /\ LET formattedUrl == processUrl(o.url)
         hostname == URLParse(formattedUrl).hostname
         valid == isValidUrl(formattedUrl)
     IN /\ options' = [options EXCEPT ![p] = o]
        /\ nreq' = [nreq EXCEPT ![p] = @ + 1]
        /\ loc' = [loc EXCEPT ![p] =
                     [NoLoc EXCEPT !.given = o,
                                   !.formattedUrl = formattedUrl,
                                   !.device = deviceOf(o),
                                   !.categories = categoriesOf(o),
                                   !.force = forceOf(o)]]
        /\ filesAtStart' = [filesAtStart EXCEPT ![p] = files]
        /\ populatedBefore' =
             [populatedBefore EXCEPT ![p] =
                valid /\ cachePathOf(o) \in DOMAIN firstReport]
        /\ onlyNonForced' = (onlyNonForced /\ ~forceOf(o))
        /\ IF ~valid
             THEN /\ Throw(p, InvalidUrlMsg)
                  /\ log' = [log EXCEPT ![p] = <<>>]
           ELSE IF hostname = <<>>
             THEN /\ Throw(p, ResolutionMsg)
                  /\ log' = [log EXCEPT ![p] = <<>>]
           ELSE /\ pc' = [pc EXCEPT ![p] = "dns"]
                /\ result' = [result EXCEPT ![p] = NoResult]
                /\ log' = [log EXCEPT ![p] = <<"dns">>]
  /\ UNCHANGED <<files, dirs, now, firstReport, fnVars>>

Start(p) == \E o \in PipelineOptions : StartWith(p, o)

\* Lines 174-182: dns.resolve settles; on success mkdir is issued.
DnsDone(p) ==
  /\ pc[p] = "dns"
  /\ \E ok \in BOOLEAN :
       IF ok
         THEN /\ loc' = [loc EXCEPT ![p].dnsOk = "ok",
                                    ![p].outputDir = outputDirOf(options[p])]
              /\ pc' = [pc EXCEPT ![p] = "mkdir"]
              /\ Invoke(p, "mkdir")
              /\ UNCHANGED result
         ELSE /\ loc' = [loc EXCEPT ![p].dnsOk = "failed"]
              /\ Throw(p, ResolutionMsg)
              /\ UNCHANGED log
  /\ UNCHANGED <<options, nreq, files, dirs, now, filesAtStart, firstReport,
                 populatedBefore, onlyNonForced, fnVars>>

\* Lines 182-202: mkdir settles; the key is computed (sorting the
\* categories array, which is the caller's own array when the caller gave
\* one), and either the cache file is probed or, with force, the locator
\* is called.
MkdirDone(p) ==
  /\ pc[p] = "mkdir"
  /\ \E ok \in BOOLEAN :
       IF ok
         THEN LET outputDir == loc[p].outputDir
                  cacheKey ==
                    generateCacheKey([url |-> loc[p].formattedUrl,
                                      device |-> loc[p].device,
                                      categories |-> Some(loc[p].categories)])
              IN /\ dirs' = dirs \cup {outputDir}
                 /\ loc' = [loc EXCEPT
                       ![p].cacheKey = cacheKey,
                       ![p].cachePath = pathJoin(outputDir, cacheFileName(cacheKey)),
                       ![p].categories = SortStrings(@)]
                 /\ options' = [options EXCEPT
                       ![p].categories = sortedCategories(@)]
                 /\ IF ~loc[p].force
                      THEN /\ pc' = [pc EXCEPT ![p] = "access"]
                           /\ Invoke(p, "access")
                      ELSE /\ pc' = [pc EXCEPT ![p] = "find"]
                           /\ Invoke(p, "find")
                 /\ UNCHANGED result
         ELSE /\ Throw(p, <<"EACCES: permission denied, mkdir">>)
              /\ UNCHANGED <<loc, options, dirs, log>>
  /\ UNCHANGED <<nreq, files, now, filesAtStart, firstReport, populatedBefore,
                 onlyNonForced, fnVars>>

\* Lines 193-194: access(cachePath) settles; a failure is a cache miss.
AccessDone(p) ==
  /\ pc[p] = "access"
  /\ IF loc[p].cachePath \in DOMAIN files
       THEN /\ pc' = [pc EXCEPT ![p] = "readCache"]
            /\ Invoke(p, "readFile")
       ELSE /\ pc' = [pc EXCEPT ![p] = "find"]
            /\ Invoke(p, "find")
  /\ UNCHANGED <<options, loc, result, nreq, files, dirs, now, filesAtStart,
                 firstReport, populatedBefore, onlyNonForced, fnVars>>

\* A lookup whose failure to read or to parse is thrown to the caller.
ReadCacheDoneStrict(p) ==
  /\ pc[p] = "readCache"
  /\ LET text == FileAt(files, loc[p].cachePath)
         parsed == JSONparse(text)
     IN IF readFileOk(text) /\ parsed.ok
          THEN /\ pc' = [pc EXCEPT ![p] = "done"]
               /\ result' = [result EXCEPT ![p] =
                               Returned(loc[p].cachePath, parsed.value, TRUE)]
          ELSE Throw(p, <<"SyntaxError">>)
  /\ loc' = [loc EXCEPT ![p].cached = FileAt(files, loc[p].cachePath)]
  /\ UNCHANGED <<options, log, nreq, files, dirs, now, filesAtStart,
                 firstReport, populatedBefore, onlyNonForced, fnVars>>

\* Lines 194-202: readFile(cachePath) settles; the text is parsed and
\* returned, and a failure to read or to parse is a cache miss.
ReadCacheDone(p) ==
  /\ pc[p] = "readCache"
  /\ LET text == FileAt(files, loc[p].cachePath)
         parsed == JSONparse(text)
     IN IF readFileOk(text) /\ parsed.ok
          THEN /\ pc' = [pc EXCEPT ![p] = "done"]
               /\ result' = [result EXCEPT ![p] =
                               Returned(loc[p].cachePath, parsed.value, TRUE)]
               /\ UNCHANGED log
          ELSE /\ pc' = [pc EXCEPT ![p] = "find"]
               /\ Invoke(p, "find")
               /\ UNCHANGED result
  /\ loc' = [loc EXCEPT ![p].cached = FileAt(files, loc[p].cachePath)]
  /\ UNCHANGED <<options, nreq, files, dirs, now, filesAtStart,
                 firstReport, populatedBefore, onlyNonForced, fnVars>>

\* Lines 209-233: the binary is known; the temporary path is named after
\* Date.now(), the command is built and the child process is started.
StartExec(p, finalLighthousePath, env) ==
  \E t \in now..MaxClock :
    LET tempReportPath == pathJoin(loc[p].outputDir, tempFileName(t))
    IN /\ now' = t
       /\ loc' = [loc EXCEPT
             ![p].finalLighthousePath = finalLighthousePath,
             ![p].env = env,
             ![p].tempReportPath = tempReportPath,
             ![p].command =
                buildCommand(finalLighthousePath, loc[p].formattedUrl,
                             tempReportPath, loc[p].categories,
                             loc[p].device)]
       /\ pc' = [pc EXCEPT ![p] = "exec"]
       /\ Invoke(p, "exec")
       /\ UNCHANGED result

\* What the locator has when only its file probes have run, and when the
\* `which lighthouse` process has ended as well.
ByAccess(env) == [env EXCEPT !.whichOk = FALSE, !.versionOk = FALSE]

ByWhich(env) == [env EXCEPT !.versionOk = FALSE]

\* Lines 83-112: the access probes of findLighthousePath settle; with no
\* executable among the override and the candidates, `which lighthouse`
\* is started.
FindDone(p) ==
  /\ pc[p] = "find"
  /\ \E env \in LocatorEnvs :
       LET finalLighthousePath ==
             findLighthousePath(options[p].lighthousePath, ByAccess(env))
       IN IF finalLighthousePath = NotFound
            THEN /\ loc' = [loc EXCEPT ![p].env = env]
                 /\ pc' = [pc EXCEPT ![p] = "which"]
                 /\ UNCHANGED <<result, log, now>>
            ELSE StartExec(p, finalLighthousePath, env)
  /\ UNCHANGED <<options, nreq, files, dirs, filesAtStart, firstReport,
                 populatedBefore, onlyNonForced, fnVars>>

\* Lines 112-123: the `which lighthouse` process ends (it is started with
\* no timeout); without a usable path from it, `lighthouse --version` is
\* started.
WhichDone(p) ==
  /\ pc[p] = "which"
  /\ LET finalLighthousePath ==
           findLighthousePath(options[p].lighthousePath, ByWhich(loc[p].env))
     IN IF finalLighthousePath = NotFound
          THEN /\ pc' = [pc EXCEPT ![p] = "version"]
               /\ UNCHANGED <<loc, result, log, now>>
          ELSE StartExec(p, finalLighthousePath, loc[p].env)
  /\ UNCHANGED <<options, nreq, files, dirs, filesAtStart, firstReport,
                 populatedBefore, onlyNonForced, fnVars>>

\* Lines 123-127 and 202-207: the `lighthouse --version` process ends (it
\* is started with no timeout); without a binary the call fails.
VersionDone(p) ==
  /\ pc[p] = "version"
  /\ LET finalLighthousePath ==
           findLighthousePath(options[p].lighthousePath, loc[p].env)
     IN IF finalLighthousePath = NotFound
          THEN /\ loc' = [loc EXCEPT ![p].finalLighthousePath = NotFound]
               /\ Throw(p, NotFoundMsg)
               /\ UNCHANGED <<log, now>>
          ELSE StartExec(p, finalLighthousePath, loc[p].env)
  /\ UNCHANGED <<options, nreq, files, dirs, filesAtStart, firstReport,
                 populatedBefore, onlyNonForced, fnVars>>

\* Lines 233-242: the child process ends; on exit 0 the artifact is read.
\* The process has taken time: the clock is past the value the call read
\* for the name of its temporary file.
ExecDone(p) ==
  /\ pc[p] = "exec"
  /\ \E outcome \in ExecOutcomes :
       /\ files' = IF outcome.artifact = Absent THEN files
                   ELSE PutFile(files, loc[p].tempReportPath, outcome.artifact)
       /\ loc' = [loc EXCEPT ![p].exit = outcome.exit,
                              ![p].artifact = outcome.artifact]
       /\ IF execSucceeded(outcome.exit)
            THEN /\ pc' = [pc EXCEPT ![p] = "readTemp"]
                 /\ Invoke(p, "readTemp")
                 /\ UNCHANGED result
            ELSE /\ Throw(p, ExecFailedMsg(execDiag(outcome.exit)))
                 /\ UNCHANGED log
  /\ now' = IF now > timestampOf(loc[p].tempReportPath) THEN now
            ELSE timestampOf(loc[p].tempReportPath) + 1
  /\ UNCHANGED <<options, nreq, dirs, filesAtStart, firstReport,
                 populatedBefore, onlyNonForced, fnVars>>

\* A read of the artifact that substitutes a report for a missing file.
ReadTempDoneDefault(p) ==
  /\ pc[p] = "readTemp"
  /\ LET text == FileAt(files, loc[p].tempReportPath)
     IN IF text # Absent /\ ~JSONparse(text).ok
          THEN /\ Throw(p, ExecFailedMsg("SyntaxError"))
               /\ loc' = [loc EXCEPT ![p].reportContent = text]
               /\ UNCHANGED log
        ELSE /\ loc' = [loc EXCEPT ![p].reportContent =
                           IF text = Absent THEN JsonText("R1") ELSE text]
             /\ pc' = [pc EXCEPT ![p] = "write"]
             /\ Invoke(p, "writeFile")
             /\ UNCHANGED result
  /\ UNCHANGED <<options, nreq, files, dirs, now, filesAtStart, firstReport,
                 populatedBefore, onlyNonForced, fnVars>>

\* Lines 242-246: readFile(tempReportPath) settles; the text is parsed and
\* the write of the cache file is issued.
ReadTempDone(p) ==
  /\ pc[p] = "readTemp"
  /\ LET text == FileAt(files, loc[p].tempReportPath)
     IN IF text = Absent
          THEN /\ Throw(p, ExecFailedMsg("ENOENT: no such file or directory"))
               /\ UNCHANGED <<loc, log>>
        ELSE IF ~JSONparse(text).ok
          THEN /\ Throw(p, ExecFailedMsg("SyntaxError"))
               /\ loc' = [loc EXCEPT ![p].reportContent = text]
               /\ UNCHANGED log
        ELSE /\ loc' = [loc EXCEPT ![p].reportContent = text]
             /\ pc' = [pc EXCEPT ![p] = "write"]
             /\ Invoke(p, "writeFile")
             /\ UNCHANGED result
  /\ UNCHANGED <<options, nreq, files, dirs, now, filesAtStart, firstReport,
                 populatedBefore, onlyNonForced, fnVars>>

\* Line 246, first half: writeFile opens the cache file, truncating it.
WriteOpen(p) ==
  /\ pc[p] = "write"
  /\ \E ok \in BOOLEAN :
       IF ok
         THEN /\ files' = PutFile(files, loc[p].cachePath, <<>>)
              /\ pc' = [pc EXCEPT ![p] = "writing"]
              /\ UNCHANGED result
         ELSE /\ Throw(p, ExecFailedMsg("EACCES: permission denied, open"))
              /\ UNCHANGED files
  /\ UNCHANGED <<options, loc, log, nreq, dirs, now, filesAtStart, firstReport,
                 populatedBefore, onlyNonForced, fnVars>>

\* Lines 246-248, second half: writeFile writes the text from offset 0 of
\* the file it opened and settles; the removal of the temporary file is
\* issued.
WriteFinish(p) ==
  /\ pc[p] = "writing"
  /\ \E ok \in BOOLEAN :
       IF ok
         THEN /\ files' = PutFile(files, loc[p].cachePath,
                                  Overwrite(FileAt(files, loc[p].cachePath),
                                            loc[p].reportContent))
              /\ pc' = [pc EXCEPT ![p] = "unlink"]
              /\ Invoke(p, "unlink")
              /\ UNCHANGED result
         ELSE /\ files' = PutFile(files, loc[p].cachePath, Garbage)
              /\ Throw(p, ExecFailedMsg("ENOSPC: no space left on device, write"))
              /\ UNCHANGED log
  /\ UNCHANGED <<options, loc, nreq, dirs, now, filesAtStart, firstReport,
                 populatedBefore, onlyNonForced, fnVars>>

\* Lines 248-250: unlink settles (its failure is ignored) and the call
\* returns the fresh report.
UnlinkDone(p) ==
  /\ pc[p] = "unlink"
  /\ \E ok \in BOOLEAN :
       files' = IF ok THEN RemoveFile(files, loc[p].tempReportPath) ELSE files
  /\ pc' = [pc EXCEPT ![p] = "done"]
  /\ result' = [result EXCEPT ![p] =
                  Returned(loc[p].cachePath, JSONparse(loc[p].reportContent).value,
                           FALSE)]
  /\ firstReport' =
       IF loc[p].cachePath \in DOMAIN firstReport THEN firstReport
       ELSE PutFile(firstReport, loc[p].cachePath,
                    JSONparse(loc[p].reportContent).value)
  /\ UNCHANGED <<options, loc, log, nreq, dirs, now, filesAtStart,
                 populatedBefore, onlyNonForced, fnVars>>

\* The awaits of a call that has begun.
Steps(p) ==
  \/ DnsDone(p)
  \/ MkdirDone(p)
  \/ AccessDone(p)
  \/ ReadCacheDone(p)
  \/ FindDone(p)
  \/ WhichDone(p)
  \/ VersionDone(p)
  \/ ExecDone(p)
  \/ ReadTempDone(p)
  \/ WriteOpen(p)
  \/ WriteFinish(p)
  \/ UnlinkDone(p)

runLighthouseAudit(p) == Start(p) \/ Steps(p)

Next == \E p \in SeqCallers : runLighthouseAudit(p)

Spec == Init /\ [][Next]_vars

Terminal(p) == pc[p] \in {"done", "failed"}

\* ------------------------------------------------------------------------
\* The awaits the scheduling settles.  DNS resolution and file operations
\* complete; the audit process is started with timeout: 120000 (line 239),
\* so it is killed if it has not ended by then.  `which lighthouse` and
\* `lighthouse --version` (lines 112 and 123) are started with no timeout:
\* nothing makes them end.
\* ------------------------------------------------------------------------
ExecKilled(p) == ExecDone(p) /\ loc'[p].exit = "timeout"

SettledAwaits(p) ==
  /\ WF_vars(DnsDone(p))
  /\ WF_vars(MkdirDone(p))
  /\ WF_vars(AccessDone(p))
  /\ WF_vars(ReadCacheDone(p))
  /\ WF_vars(FindDone(p))
  /\ WF_vars(ExecKilled(p))
  /\ WF_vars(ReadTempDone(p))
  /\ WF_vars(WriteOpen(p))
  /\ WF_vars(WriteFinish(p))
  /\ WF_vars(UnlinkDone(p))

LiveSpec == Init /\ [][Next]_vars /\ \A p \in SeqCallers : SettledAwaits(p)

\* ------------------------------------------------------------------------
\* Lines 156-189: the key and the cache path of two requests, one of them
\* relying on the defaults of the destructuring
\* ------------------------------------------------------------------------
ReportsDir == <<"~", "reports">>

\* The orders in which a caller can list the four default categories.
DefaultOrders ==
  {[i \in 1..Len(DefaultCategories) |-> DefaultCategories[q[i]]] :
     q \in {f \in [1..Len(DefaultCategories) -> 1..Len(DefaultCategories)] :
              \A i, j \in DOMAIN f : f[i] = f[j] => i = j}}

SparseRequests ==
  [url : {HostA, WwwPrefix \o HostA},
   outputPath : {<<>>},
   lighthousePath : {<<>>},
   device : {Undefined, "desktop"},
   categories : {None, Some(<<catSeo>>)},
   force : {None}]

FullRequests ==
  [url : {HostA, WwwPrefix \o HostA},
   outputPath : {<<>>, ReportsDir},
   lighthousePath : {<<>>, CustomLighthousePath},
   device : {Undefined, "mobile", "desktop"},
   categories : {None, Some(<<catSeo>>)} \cup {Some(l) : l \in DefaultOrders},
   force : {None, Some(TRUE)}]

DefaultsInit ==
  /\ PipelineInit
  /\ \E o1 \in SparseRequests, o2 \in FullRequests : fnArgs = <<o1, o2>>
  /\ fnRes = <<>>

\* Lines 156-189 for both requests: the defaults, the output directory,
\* the key and the path of the cache file.
ComputeEntries ==
  /\ fnRes = <<>>
  /\ fnRes' = [i \in 1..2 |-> [cacheKey |-> cacheKeyOf(fnArgs[i]),
                               cachePath |-> cachePathOf(fnArgs[i])]]
  /\ UNCHANGED <<fnArgs, pipelineVars>>

DefaultsSpec == DefaultsInit /\ [][ComputeEntries]_vars

\* ------------------------------------------------------------------------
\* The AI tool (tools entry point): one call of runLighthouseAudit inside
\* try/catch, and the value made of its outcome
\* ------------------------------------------------------------------------
ToolUrls == {EmptyStr, WwwPrefix \o HostA}

\* Lines 13-17: the options the tool passes.
ToolOptions(url) ==
  [url |-> url, outputPath |-> <<>>, lighthousePath |-> <<>>,
   device |-> "mobile", categories |-> Some(DefaultCategories), force |-> None]

\* The document a report text parses to: a Lighthouse result with its
\* categories and audits, or the JSON value null.
Null == [isNull |-> TRUE, scores |-> <<>>, metrics |-> <<>>]

Document(report) ==
  IF report = "R1"
    THEN [isNull |-> FALSE,
          scores |-> <<90, 100, 80, 70>>,
          metrics |-> <<"1.2 s", "0.8 s", "0.01", "120 ms">>]
  ELSE Null

NoValue ==
  [status |-> "none", url |-> <<>>, scores |-> <<>>, metrics |-> <<>>,
   message |-> <<>>]

Completion(thrown, message, value) ==
  [thrown |-> thrown, message |-> message, value |-> value]

\* Lines 13-41, the try block: the awaited call throws what
\* runLighthouseAudit threw; reading report.categories of null throws a
\* TypeError; otherwise the success value is returned.
toolTry(url, outcome) ==
  IF outcome.status = "error"
    THEN Completion(TRUE, outcome.message, NoValue)
  ELSE IF Document(outcome.report).isNull
    THEN Completion(TRUE, <<"TypeError: Cannot read properties of null">>, NoValue)
  ELSE Completion(FALSE, <<>>,
                  [NoValue EXCEPT !.status = "success", !.url = url,
                                  !.scores = Document(outcome.report).scores,
                                  !.metrics = Document(outcome.report).metrics])

\* Lines 42-50, the catch block: what was thrown becomes an error value.
toolCatch(completion) ==
  IF completion.thrown
    THEN Completion(FALSE, <<>>,
                    [NoValue EXCEPT !.status = "error",
                                    !.message = completion.message])
  ELSE completion

\* The cache file of the tool's key, present with a report when the tool
\* is first called, or absent.
ToolEntry == cachePathOf(ToolOptions(WwwPrefix \o HostA))

ToolInitialFiles ==
  {<<>>} \cup {PutFile(<<>>, ToolEntry, JsonText(r)) : r \in Reports}

ToolInit ==
  /\ \E fs \in ToolInitialFiles : PipelineInitWith(fs)
  /\ fnArgs = <<>>
  /\ fnRes = <<>>

\* Lines 9-17: the tool is called with props.arguments.url and calls
\* runLighthouseAudit.
ToolCall ==
  /\ Len(fnRes) = nreq["c1"]
  /\ \E url \in ToolUrls : StartWith("c1", ToolOptions(url))

\* Lines 19-50: the call has settled and the tool completes.
ToolReturn ==
  /\ Terminal("c1")
  /\ Len(fnRes) < nreq["c1"]
  /\ fnRes' = Append(fnRes, toolCatch(toolTry(options["c1"].url, result["c1"])))
  /\ UNCHANGED <<fnArgs, pipelineVars>>

ToolNext == ToolCall \/ Steps("c1") \/ ToolReturn

ToolSpec == ToolInit /\ [][ToolNext]_vars

\* ------------------------------------------------------------------------
\* Two calls in flight at once over one output directory, one per caller
\* ------------------------------------------------------------------------
ConcInit ==
  /\ PipelineInit
  /\ fnArgs = <<>>
  /\ fnRes = <<>>

\* The awaits of the two calls interleave in any order; each caller issues
\* one call, for a URL that is valid.
ConcNext ==
  \E p \in Callers :
    /\ nreq[p] = 0 \/ ~Terminal(p)
    /\ runLighthouseAudit(p)
    /\ options'[p].url # EmptyStr

ConcSpec == ConcInit /\ [][ConcNext]_vars

\* ------------------------------------------------------------------------
\* Evaluations of the key computation on bounded inputs
\* ------------------------------------------------------------------------
KeyCategories == {catSeo, catSeoUpper, catPerformance}

CategoryLists == UNION {[1..n -> KeyCategories] : n \in 0..MaxCats}

\* The objects handed to generateCacheKey at line 185.
KeyRequests ==
  [url : {HttpsPrefix \o HostA, HttpsPrefix \o WwwPrefix \o HostA},
   device : {"mobile", "desktop"},
   categories : {None} \cup {Some(l) : l \in CategoryLists}]

KeyInit ==
  /\ PipelineInit
  /\ \E o1 \in KeyRequests, o2 \in KeyRequests :
       fnArgs = [given |-> <<o1, o2>>, live |-> <<o1, o2>>]
  /\ fnRes = <<>>

\* generateCacheKey is applied to both objects; it leaves each object's
\* categories array sorted.  It can be applied again to the same objects.
ComputeKeys ==
  /\ Len(fnRes) < 2
  /\ fnRes' = Append(fnRes, <<generateCacheKey(fnArgs.live[1]),
                              generateCacheKey(fnArgs.live[2])>>)
  /\ fnArgs' = [fnArgs EXCEPT
        !.live = [i \in 1..2 |->
                    [fnArgs.live[i] EXCEPT !.categories = sortedCategories(@)]]]
  /\ UNCHANGED pipelineVars

KeySpec == KeyInit /\ [][ComputeKeys]_vars

\* The ways a raw URL can be written for one host.
UrlFormats == {"plain", "www", "https", "https-www"}

formatUrl(fmt, host) ==
  IF fmt = "plain" THEN host
  ELSE IF fmt = "www" THEN WwwPrefix \o host
  ELSE IF fmt = "https" THEN HttpsPrefix \o host
  ELSE HttpsPrefix \o WwwPrefix \o host

UrlHosts == {HostA, HostBPath}

UrlKeyInit ==
  /\ PipelineInit
  /\ \E host \in UrlHosts, f1 \in UrlFormats, f2 \in UrlFormats,
        device \in {Undefined, "mobile", "desktop"},
        categories \in {None, Some(<<catSeo>>), Some(<<catSeo, catPerformance>>)} :
       fnArgs = [host |-> host, fmt |-> <<f1, f2>>,
                 given |-> [i \in 1..2 |->
                    [NoOptions EXCEPT
                       !.url = formatUrl(IF i = 1 THEN f1 ELSE f2, host),
                       !.device = device, !.categories = categories]]]
  /\ fnRes = <<>>

\* Lines 156-185 applied to both requests: defaults, processUrl and
\* generateCacheKey.
ComputeRequestKeys ==
  /\ fnRes = <<>>
  /\ fnRes' = <<cacheKeyOf(fnArgs.given[1]), cacheKeyOf(fnArgs.given[2])>>
  /\ UNCHANGED <<fnArgs, pipelineVars>>

UrlKeySpec == UrlKeyInit /\ [][ComputeRequestKeys]_vars

\* ------------------------------------------------------------------------
\* Evaluations of processUrl on bounded raw strings
\* ------------------------------------------------------------------------
RECURSIVE Repeat(_, _)
Repeat(s, n) == IF n = 0 THEN <<>> ELSE s \o Repeat(s, n - 1)

\* The strings a user can type: optional surrounding whitespace, an
\* optional scheme in either letter case, leading `www.` prefixes and a
\* remainder.
RawUrls ==
  { lead \o scheme \o Repeat(www, n) \o host \o trail :
      lead \in {EmptyStr, Blank},
      scheme \in {EmptyStr, HttpPrefix, HttpsPrefix, HttpsUpper},
      www \in {WwwPrefix, WwwUpper},
      n \in 0..MaxWww,
      host \in {EmptyStr, HostA, HostSpaced},
      trail \in {EmptyStr, Blank} }

NormInit ==
  /\ PipelineInit
  /\ fnArgs \in RawUrls
  /\ fnRes = <<>>

\* processUrl is applied to the raw string, and then to its own result.
Normalize ==
  /\ Len(fnRes) < 2
  /\ fnRes' = Append(fnRes, processUrl(IF fnRes = <<>> THEN fnArgs
                                       ELSE fnRes[Len(fnRes)]))
  /\ UNCHANGED <<pipelineVars, fnArgs>>

NormSpec == NormInit /\ [][Normalize]_vars

\* ------------------------------------------------------------------------
\* Evaluations of the command construction on bounded requests
\* ------------------------------------------------------------------------
\* The requests whose command is built, with the binary the locator found
\* and the value of Date.now().
CmdRequests ==
  [o : [url : {HostA, WwwPrefix \o HostA, HttpPrefix \o HostBPath},
        outputPath : {<<>>},
        lighthousePath : {<<>>},
        device : {Undefined, "mobile", "desktop"},
        categories : {None, Some(<<catSeo>>), Some(<<catSeo, catPerformance>>)},
        force : {None, Some(TRUE)}],
   finalLighthousePath : {potentialPaths[1], BareName},
   timestamp : 0..MaxClock]

CmdInit ==
  /\ PipelineInit
  /\ fnArgs \in CmdRequests
  /\ fnRes = <<>>

\* Lines 156-229 on the path that reaches the command: the defaults are
\* applied, the URL is normalized and the command is built.
BuildCommand ==
  /\ fnRes = <<>>
  /\ LET o == fnArgs.o
         tempReportPath == pathJoin(outputDirOf(o), tempFileName(fnArgs.timestamp))
     IN fnRes' = <<buildCommand(fnArgs.finalLighthousePath, processUrl(o.url),
                                tempReportPath, categoriesOf(o), deviceOf(o))>>
  /\ UNCHANGED <<pipelineVars, fnArgs>>

CmdSpec == CmdInit /\ [][BuildCommand]_vars

\* ------------------------------------------------------------------------
\* findLighthousePath, one action per strategy, on bounded environments
\* ------------------------------------------------------------------------
\* A path `which lighthouse` can print that is none of the fixed candidates.
WhichPath == <<"usr", "local", "nvm", "bin", "lighthouse">>

LocatorPaths ==
  {expandHomeDir(CustomLighthousePath), potentialPaths[2], potentialPaths[5],
   WhichPath}

LocatorRequests ==
  [customPath : {<<>>, CustomLighthousePath},
   env : [executable : SUBSET LocatorPaths,
          whichOk : BOOLEAN,
          whichOut : {<<>>, WhichPath},
          versionOk : BOOLEAN]]

LocInit ==
  /\ PipelineInit
  /\ fnArgs \in LocatorRequests
  /\ fnRes = [stage |-> "override", i |-> 1, probes |-> <<>>, result |-> NotFound]

\* Lines 83-91: the override, when given, is expanded and probed.
LocateOverride ==
  /\ fnRes.stage = "override"
  /\ LET expandedPath == expandHomeDir(fnArgs.customPath)
     IN IF fnArgs.customPath = <<>>
          THEN fnRes' = [fnRes EXCEPT !.stage = "candidates"]
        ELSE IF expandedPath \in fnArgs.env.executable
          THEN fnRes' = [fnRes EXCEPT !.stage = "done",
                                      !.probes = Append(@, <<"access", expandedPath>>),
                                      !.result = expandedPath]
        ELSE fnRes' = [fnRes EXCEPT !.stage = "candidates",
                                    !.probes = Append(@, <<"access", expandedPath>>)]
  /\ UNCHANGED <<pipelineVars, fnArgs>>

\* Lines 102-109: one turn of the loop over potentialPaths.
LocateCandidate ==
  /\ fnRes.stage = "candidates"
  /\ LET path == potentialPaths[fnRes.i]
     IN IF path \in fnArgs.env.executable
          THEN fnRes' = [fnRes EXCEPT !.stage = "done",
                                      !.probes = Append(@, <<"access", path>>),
                                      !.result = path]
        ELSE fnRes' = [fnRes EXCEPT
                         !.stage = IF fnRes.i = Len(potentialPaths) THEN "which"
                                   ELSE "candidates",
                         !.i = IF fnRes.i = Len(potentialPaths) THEN @ ELSE @ + 1,
                         !.probes = Append(@, <<"access", path>>)]
  /\ UNCHANGED <<pipelineVars, fnArgs>>

\* Lines 111-120: `which lighthouse`; a printed path is probed.
LocateWhich ==
  /\ fnRes.stage = "which"
  /\ LET env == fnArgs.env
         ran == Append(fnRes.probes, <<"exec", <<"which lighthouse">> >>)
     IN IF env.whichOk /\ env.whichOut # <<>>
          THEN IF env.whichOut \in env.executable
                 THEN fnRes' = [fnRes EXCEPT
                                  !.stage = "done",
                                  !.probes = Append(ran, <<"access", env.whichOut>>),
                                  !.result = env.whichOut]
                 ELSE fnRes' = [fnRes EXCEPT
                                  !.stage = "version",
                                  !.probes = Append(ran, <<"access", env.whichOut>>)]
          ELSE fnRes' = [fnRes EXCEPT !.stage = "version", !.probes = ran]
  /\ UNCHANGED <<pipelineVars, fnArgs>>

\* Lines 122-127: `lighthouse --version`.
LocateVersion ==
  /\ fnRes.stage = "version"
  /\ fnRes' = [fnRes EXCEPT
                 !.stage = "done",
                 !.probes = Append(@, <<"exec", <<"lighthouse --version">> >>),
                 !.result = IF fnArgs.env.versionOk THEN BareName ELSE NotFound]
  /\ UNCHANGED <<pipelineVars, fnArgs>>

LocNext ==
  \/ LocateOverride
  \/ LocateCandidate
  \/ LocateWhich
  \/ LocateVersion

LocSpec == LocInit /\ [][LocNext]_vars

\* ------------------------------------------------------------------------
\* ReportLoader: the calls it issues through usePromise
\* ------------------------------------------------------------------------
\* The options ReportLoader is mounted with.
LoaderOptions ==
  [url : {HostA, WwwPrefix \o HostA},
   outputPath : {<<>>},
   lighthousePath : {<<>>},
   device : {"mobile", "desktop"},
   categories : {Some(DefaultCategories)},
   force : {None}]

\* Lines 632-637 before the first render: reanalyzeCount is 0, nothing is
\* rendered and no call has been issued. `queued` counts the state updates
\* set but not yet rendered; `rendered` is the force of the currentOptions
\* of the last render, <<>> before the first.
LoaderInit ==
  /\ PipelineInit
  /\ fnArgs \in LoaderOptions
  /\ fnRes = [reanalyzeCount |-> 0, queued |-> 0, rendered |-> <<>>,
              reanalyzed |-> FALSE, calls |-> <<>>]

\* A call usePromise starts: runLighthouseAudit(currentOptions) with the
\* given force, started after Re-analyze was triggered or before.
IssuedCall(force, reanalyzed) ==
  [force |-> force, afterReanalyze |-> reanalyzed, outcome |-> "pending"]

\* The view ReportLoader returns (lines 695-757): of the latest call only,
\* as usePromise drops the result of a call that is not the latest.
LoaderView(l) ==
  IF l.calls = <<>> \/ l.calls[Len(l.calls)].outcome = "pending" THEN "loading"
  ELSE IF l.calls[Len(l.calls)].outcome = "error" THEN "error"
  ELSE "report"

\* Lines 633-655: a render. The queued updates are applied, currentOptions
\* is recomputed, and usePromise starts a call when its arguments differ
\* from those of the previous render.
Render ==
  /\ fnRes.rendered = <<>> \/ fnRes.queued > 0
  /\ LET count == fnRes.reanalyzeCount + fnRes.queued
         force == count > 0
     IN fnRes' = [fnRes EXCEPT
                    !.reanalyzeCount = count,
                    !.queued = 0,
                    !.rendered = <<force>>,
                    !.calls = IF fnRes.rendered = <<force>> THEN @
                              ELSE Append(@, IssuedCall(force, fnRes.reanalyzed))]
  /\ UNCHANGED <<pipelineVars, fnArgs>>

\* Lines 690-693: handleReanalyze, from the report view. The update of
\* reanalyzeCount is queued and revalidate() starts a call with the
\* arguments of the last render.
Reanalyze ==
  /\ fnRes.rendered # <<>> /\ fnRes.queued = 0
  /\ LoaderView(fnRes) = "report"
  /\ Len(fnRes.calls) < MaxCalls - 1
  /\ fnRes' = [fnRes EXCEPT
                 !.queued = @ + 1,
                 !.reanalyzed = TRUE,
                 !.calls = Append(@, IssuedCall(fnRes.rendered[1], TRUE))]
  /\ UNCHANGED <<pipelineVars, fnArgs>>

\* Lines 713-717: Try again, from the error view, is revalidate().
TryAgain ==
  /\ fnRes.rendered # <<>> /\ fnRes.queued = 0
  /\ LoaderView(fnRes) = "error"
  /\ Len(fnRes.calls) < MaxCalls
  /\ fnRes' = [fnRes EXCEPT
                 !.calls = Append(@, IssuedCall(fnRes.rendered[1], fnRes.reanalyzed))]
  /\ UNCHANGED <<pipelineVars, fnArgs>>

\* What a call of runLighthouseAudit can settle with: a forced call never
\* returns from the cache.
CallOutcomes(force) ==
  IF force THEN {"fresh", "error"} ELSE {"cache", "fresh", "error"}

\* A call settles; this happens after the render a handler has queued.
Settle ==
  /\ fnRes.rendered # <<>> /\ fnRes.queued = 0
  /\ \E i \in 1..Len(fnRes.calls) :
       /\ fnRes.calls[i].outcome = "pending"
       /\ \E out \in CallOutcomes(fnRes.calls[i].force) :
            fnRes' = [fnRes EXCEPT !.calls[i].outcome = out]
  /\ UNCHANGED <<pipelineVars, fnArgs>>

LoaderNext ==
  \/ Render
  \/ Reanalyze
  \/ TryAgain
  \/ Settle

LoaderSpec == LoaderInit /\ [][LoaderNext]_vars

\* ------------------------------------------------------------------------
\* Properties
\* ------------------------------------------------------------------------
InLog(p, op) == \E i \in 1..Len(log[p]) : log[p][i] = op

Forced(p) == options[p].force = Some(TRUE)

ValidRequest(p) == URLParse(processUrl(options[p].url)).ok

CacheFileUntouched(p) ==
  FileAt(files, cachePathOf(options[p])) = FileAt(filesAtStart[p], cachePathOf(options[p]))

\* C1: a non-forced request that ends as a cache hit has invoked no DNS
\* resolution, no executable search and no child process.
C1_CacheHitNoExternalCalls ==
  \A p \in Callers :
    (~Forced(p) /\ pc[p] = "done" /\ result[p].fromCache)
      => /\ ~InLog(p, "dns")
         /\ ~InLog(p, "find")
         /\ ~InLog(p, "exec")

\* C2: a forced request never probes or reads the cache file; it performs
\* the DNS check, and once that and mkdir have succeeded the executable
\* search and then the audit run, whatever the cache holds; when it returns,
\* it returns a report it has just read from the run's artifact
\* (fromCache = false) and the cache file of its key holds that report.
C2_ForceBypassesCache ==
  \A p \in Callers :
    (Forced(p) /\ pc[p] # "idle" /\ ValidRequest(p))
      => /\ pc[p] \notin {"access", "readCache"}
         /\ ~InLog(p, "access")
         /\ ~InLog(p, "readFile")
         /\ InLog(p, "dns")
         /\ (pc[p] \notin {"dns", "mkdir", "failed"} => InLog(p, "find"))
         /\ (pc[p] \notin {"dns", "mkdir", "find", "which", "version", "failed"}
               => InLog(p, "exec"))
         /\ (pc[p] = "done"
               => /\ result[p].status = "ok"
                  /\ ~result[p].fromCache
                  /\ InLog(p, "find") /\ InLog(p, "exec") /\ InLog(p, "writeFile")
                  /\ result[p].reportPath = cachePathOf(options[p])
                  /\ FileAt(files, cachePathOf(options[p])) = JsonText(result[p].report)
                  /\ loc[p].reportContent = JsonText(result[p].report))

\* C2 witness: a forced request has returned while the cache held a readable
\* entry for its key with another report, which is now replaced.
C2_Witness ==
  \E p \in Callers : \E r \in Reports :
    /\ Forced(p) /\ pc[p] = "done"
    /\ FileAt(filesAtStart[p], cachePathOf(options[p])) = JsonText(r)
    /\ r # result[p].report
    /\ FileAt(files, cachePathOf(options[p])) = JsonText(result[p].report)

\* C3: in a sequence of non-forced requests, a request whose cache path has
\* already had a successful run returns fromCache = true with the report of
\* that run and does not run the binary.
C3_AtMostOneRunPerKey ==
  onlyNonForced =>
    \A p \in Callers :
      (Terminal(p) /\ populatedBefore[p])
        => /\ result[p].status = "ok"
           /\ result[p].fromCache
           /\ result[p].report = firstReport[cachePathOf(options[p])]
           /\ ~InLog(p, "exec")

\* C7: a request whose normalized URL does not parse fails with
\* 'Invalid URL format' having invoked no DNS, filesystem or process
\* operation, and the files are as they were.
C7_InvalidUrlFailsFirst ==
  \A p \in Callers :
    (pc[p] # "idle" /\ ~ValidRequest(p))
      => /\ pc[p] = "failed"
         /\ result[p].status = "error"
         /\ result[p].message = <<"Invalid URL format">>
         /\ log[p] = <<>>
         /\ files = filesAtStart[p]

C7_Witness ==
  \E p \in Callers :
    /\ pc[p] = "failed" /\ options[p].url = EmptyStr
    /\ result[p].message = <<"Invalid URL format">>
    /\ nreq[p] = 2 /\ \E q \in DOMAIN files : files[q] \in {JsonText(r) : r \in Reports}

\* C8: when the DNS resolution fails, the request fails with the resolution
\* message, which is not the execution-failure message, and the locator,
\* the binary and the cache write have not been invoked.
C8_ResolutionFailure ==
  \A p \in Callers :
    loc[p].dnsOk = "failed"
      => /\ pc[p] = "failed"
         /\ result[p].status = "error"
         /\ result[p].message = ResolutionMsg
         /\ result[p].message[1] # ExecFailedPrefix
         /\ result[p].message # InvalidUrlMsg
         /\ ~isInstallError(result[p].message)
         /\ ~InLog(p, "find") /\ ~InLog(p, "exec") /\ ~InLog(p, "writeFile")
         /\ files = filesAtStart[p]

C8_Witness ==
  \E p \in Callers :
    /\ loc[p].dnsOk = "failed" /\ pc[p] = "failed"
    /\ log[p] = <<"dns">>

\* C9: when the child process exits non-zero, is killed after the timeout
\* or fails to spawn, the request fails with the execution-failure message
\* and the cache file of its key is as it was when the request began.
C9_ExecFailureLeavesCache ==
  \A p \in Callers :
    loc[p].exit \in {"nonzero", "timeout", "spawn"}
      => /\ pc[p] = "failed"
         /\ result[p].status = "error"
         /\ result[p].message[1] = "Lighthouse execution failed: "
         /\ ~InLog(p, "writeFile")
         /\ CacheFileUntouched(p)

\* C9 witness: a forced request over an existing entry whose child process
\* timed out.
C9_Witness ==
  \E p \in Callers :
    /\ loc[p].exit = "timeout" /\ Forced(p) /\ pc[p] = "failed"
    /\ FileAt(filesAtStart[p], cachePathOf(options[p])) \in {JsonText(r) : r \in Reports}
    /\ CacheFileUntouched(p)

\* C10: when the locator finds no binary, the request fails with a message
\* that contains `npm install -g lighthouse`, which ReportLoader's test
\* recognises, and neither the audit run nor a cache write has been invoked.
C10_ToolNotFound ==
  \A p \in Callers :
    loc[p].finalLighthousePath = NotFound
      => /\ pc[p] = "failed"
         /\ result[p].status = "error"
         /\ includes(result[p].message, "npm install -g lighthouse")
         /\ isInstallError(result[p].message)
         /\ ~InLog(p, "exec") /\ ~InLog(p, "writeFile")
         /\ files = filesAtStart[p]

C10_Witness ==
  \E p \in Callers :
    /\ loc[p].finalLighthousePath = NotFound /\ pc[p] = "failed"
    /\ InLog(p, "find")
    /\ isInstallError(result[p].message)

\* Two lists hold the same elements the same number of times.
Count(list, x) == Cardinality({i \in 1..Len(list) : list[i] = x})

IsPermutation(a, b) ==
  /\ Len(a) = Len(b)
  /\ \A i \in 1..Len(a) : Count(a, a[i]) = Count(b, a[i])

SameCategorySet(c1, c2) ==
  \/ c1 = None /\ c2 = None
  \/ c1 # None /\ c2 # None /\ IsPermutation(c1[1], c2[1])

FoldCase(list) == [i \in 1..Len(list) |-> LowerStr(list[i])]

SameCategorySetFolded(c1, c2) ==
  \/ c1 = None /\ c2 = None
  \/ c1 # None /\ c2 # None /\ IsPermutation(FoldCase(c1[1]), FoldCase(c2[1]))

SameUrlAndDevice ==
  /\ fnArgs.given[1].url = fnArgs.given[2].url
  /\ fnArgs.given[1].device = fnArgs.given[2].device

\* C4: two requests with the same normalized URL and device whose category
\* lists are permutations of each other get the same key, and computing
\* the keys again for the same requests gives the same keys.
C4_KeyOrderInsensitive ==
  /\ \A e \in 1..Len(fnRes) :
       (SameUrlAndDevice
        /\ SameCategorySet(fnArgs.given[1].categories, fnArgs.given[2].categories))
         => fnRes[e][1] = fnRes[e][2]
  /\ \A e1, e2 \in 1..Len(fnRes) : fnRes[e1] = fnRes[e2]

C4_Witness ==
  /\ Len(fnRes) = 2
  /\ SameUrlAndDevice
  /\ fnArgs.given[1].categories # fnArgs.given[2].categories
  /\ SameCategorySet(fnArgs.given[1].categories, fnArgs.given[2].categories)
  /\ fnRes[1][1] = fnRes[1][2]
  /\ fnRes[2] = fnRes[1]

\* C6, as stated: two requests with the same normalized URL and device whose
\* category sets differ only in letter case get the same key.
C6_KeyCaseInsensitive ==
  \A e \in 1..Len(fnRes) :
    (SameUrlAndDevice
     /\ SameCategorySetFolded(fnArgs.given[1].categories, fnArgs.given[2].categories))
      => fnRes[e][1] = fnRes[e][2]

\* C6, amended: the key keeps the letter case of the category identifiers.
\* Two requests with the same normalized URL and device whose category sets
\* agree once the case is folded get the same key exactly when the sets
\* agree without folding.
C6_KeyCaseSensitive ==
  \A e \in 1..Len(fnRes) :
    (SameUrlAndDevice
     /\ SameCategorySetFolded(fnArgs.given[1].categories, fnArgs.given[2].categories))
      => ((fnRes[e][1] = fnRes[e][2])
            <=> SameCategorySet(fnArgs.given[1].categories,
                                fnArgs.given[2].categories))

C6_Witness ==
  /\ Len(fnRes) >= 1
  /\ SameUrlAndDevice
  /\ fnArgs.given[1].categories = Some(<<catSeoUpper>>)
  /\ fnArgs.given[2].categories = Some(<<catSeo>>)
  /\ fnRes[1][1] # fnRes[1][2]

\* C5, as stated: raw URLs of one host that differ only in an omitted scheme
\* or a leading www. get the same key.
C5_UrlFormatInsensitive ==
  fnRes # <<>> => fnRes[1] = fnRes[2]

\* C5, amended: for a host that does not itself begin with www., the raw
\* URLs `host`, `www.host` and `https://host` get the same key; a URL that
\* already has a scheme is left as it is, so `https://www.host` gets a key
\* of its own.
C5_SchemelessWwwStripped ==
  fnRes # <<>> =>
    /\ ("https-www" \notin {fnArgs.fmt[1], fnArgs.fmt[2]} => fnRes[1] = fnRes[2])
    /\ ((fnArgs.fmt[1] = "https-www") # (fnArgs.fmt[2] = "https-www")
          => fnRes[1] # fnRes[2])

C5_Witness ==
  /\ fnRes # <<>>
  /\ fnArgs.fmt = <<"www", "https">>
  /\ fnArgs.given[1].url # fnArgs.given[2].url
  /\ fnRes[1] = fnRes[2]

\* A cache file a lookup cannot use: missing, unreadable or not parseable.
UnusableEntry(text) ==
  text = Absent \/ text = Unreadable \/ ~JSONparse(text).ok

EntryAtStart(p) == FileAt(filesAtStart[p], cachePathOf(options[p]))

\* C11: a non-forced request that reaches the lookup with a missing,
\* unreadable or unparseable cache file for its key is a miss and not an
\* error: once past the lookup it has called the locator, it fails only with
\* the locator's or the run's error, it never returns fromCache, and when
\* it returns the cache file holds the returned report in parseable form;
\* and a non-forced request that reaches the lookup with a parseable cache
\* file returns that report from the cache without a run.
C11_BadEntryIsMissAndHeals ==
  \A p \in Callers :
    (~Forced(p) /\ ValidRequest(p) /\ InLog(p, "access"))
      => /\ UnusableEntry(EntryAtStart(p))
            => /\ pc[p] \notin {"access", "readCache"} => InLog(p, "find")
               /\ pc[p] = "failed"
                     => result[p].message[1] \in {NotFoundMsg[1], ExecFailedPrefix}
               /\ pc[p] = "done"
                     => /\ ~result[p].fromCache
                        /\ InLog(p, "exec") /\ InLog(p, "writeFile")
                        /\ FileAt(files, cachePathOf(options[p]))
                             = JsonText(result[p].report)
         /\ ~UnusableEntry(EntryAtStart(p))
            => /\ pc[p] \notin {"access", "readCache"}
                     => /\ pc[p] = "done"
                        /\ result[p].fromCache
                        /\ JsonText(result[p].report) = EntryAtStart(p)
                        /\ ~InLog(p, "find") /\ ~InLog(p, "exec")
               /\ files = filesAtStart[p]

\* C11 witness: a non-forced request found the cache file of its key
\* unreadable, ran the audit and returned, and the file now parses to the
\* report it returned.
C11_Witness ==
  \E p \in Callers :
    /\ ~Forced(p) /\ pc[p] = "done"
    /\ EntryAtStart(p) = Unreadable
    /\ InLog(p, "readFile")
    /\ ~result[p].fromCache
    /\ FileAt(files, cachePathOf(options[p])) = JsonText(result[p].report)

\* The run's artifact was produced by a process that exited with code 0 and
\* is not valid JSON.
ArtifactUnparseable(p) ==
  /\ loc[p].exit = "ok"
  /\ loc[p].reportContent # <<>>
  /\ ~JSONparse(loc[p].reportContent).ok

\* C12: when the tool exits successfully but its artifact is not valid
\* structured data, the request fails with an error the caller can tell
\* apart from the error of a tool that failed to run: its message does not
\* carry the execution-failure prefix.
C12_ParseErrorDistinct ==
  \A p \in Callers :
    (pc[p] = "failed" /\ ArtifactUnparseable(p))
      => result[p].message[1] # ExecFailedPrefix

\* The kind of error a thrown message denotes; every error the code throws
\* is a plain Error, so the message is all the caller has.
ErrorKind(msg) ==
  IF msg = InvalidUrlMsg THEN "ValidationError"
  ELSE IF msg = ResolutionMsg THEN "ResolutionError"
  ELSE IF msg = NotFoundMsg THEN "ToolNotFoundError"
  ELSE IF msg[1] = ExecFailedPrefix THEN "ExecutionError"
  ELSE "other"

ErrorKinds ==
  {"ValidationError", "ResolutionError", "ToolNotFoundError", "ExecutionError",
   "ParseError"}

\* C13: every failing request fails with one of the five error kinds,
\* whichever step failed, the creation of the output directory and the
\* write of the cache file included.
C13_FailureIsOfTaxonomy ==
  \A p \in Callers :
    pc[p] = "failed" => ErrorKind(result[p].message) \in ErrorKinds

\* C14: processUrl applied to its own result returns that result, for raw
\* strings with surrounding whitespace, schemes in either letter case and
\* any number of leading `www.` prefixes.
C14_ProcessUrlIdempotent ==
  Len(fnRes) = 2 => fnRes[2] = fnRes[1]

\* C14 witness: a string with surrounding whitespace, no scheme and two
\* leading `www.` prefixes in upper case has been normalized twice, the
\* first time changing it and leaving one prefix in place.
C14_Witness ==
  /\ Len(fnRes) = 2
  /\ fnArgs = Blank \o WwwUpper \o WwwUpper \o HostA \o Blank
  /\ fnRes[1] = HttpsPrefix \o WwwUpper \o HostA

HasFlag(command, flag) == \E i \in 1..Len(command) : command[i] = flag

\* The first part of every argument of a command.
Heads(command) == [i \in 1..Len(command) |-> command[i][1]]

BaseHeads ==
  <<"path", "url", "--output=json", "--output-path=", "--only-categories=",
    "--quiet", "--disable-full-page-screenshot", "--throttling-method=devtools",
    "--chrome-flags=--headless --no-sandbox --disable-gpu --disable-web-security">>

\* C15: the command built for a request carries --preset=desktop exactly
\* when the request's device is desktop; for mobile, given or defaulted,
\* the command is the nine base arguments and nothing else.
C15_DesktopPresetIffDesktop ==
  fnRes # <<>> =>
    LET command == fnRes[1] IN
      /\ HasFlag(command, PresetDesktop) <=> fnArgs.o.device = "desktop"
      /\ fnArgs.o.device \in {Undefined, "mobile"} => Heads(command) = BaseHeads
      /\ fnArgs.o.device = "desktop"
           => Heads(command) = Append(BaseHeads, PresetDesktop[1])

\* C15 witness: the command of a desktop request with two categories has
\* been built; it has ten arguments, the preset flag last.
C15_Witness ==
  /\ fnRes # <<>>
  /\ fnArgs.o.device = "desktop"
  /\ fnArgs.o.categories = Some(<<catSeo, catPerformance>>)
  /\ fnRes[1][Len(fnRes[1])] = PresetDesktop
  /\ Len(fnRes[1]) = 10

\* Every occurrence of operation a in the log of p precedes every
\* occurrence of operation b.
Before(p, a, b) ==
  \A i, j \in 1..Len(log[p]) : (log[p][i] = a /\ log[p][j] = b) => i < j

\* C16: within a request the cache lookup precedes the DNS resolution, the
\* executable search and the child process; the DNS resolution precedes
\* the executable search and the child process; the child process
\* precedes the cache write; and a non-forced request that has issued the
\* DNS resolution has already looked the cache up.
C16_StepOrder ==
  \A p \in Callers :
    /\ Before(p, "access", "dns")
    /\ Before(p, "access", "find")
    /\ Before(p, "access", "exec")
    /\ Before(p, "dns", "find")
    /\ Before(p, "dns", "exec")
    /\ Before(p, "exec", "writeFile")
    /\ (~Forced(p) /\ InLog(p, "dns")) => InLog(p, "access")

\* C17: one invocation issues at most one DNS resolution and at most one
\* audit run, an invocation that has thrown is at its end, and a failed
\* invocation takes no further step: until the caller issues a new call
\* its log, locals and result stay as they are and no file changes.
C17_NoRetry ==
  /\ [](\A p \in Callers :
          /\ Count(log[p], "dns") <= 1
          /\ Count(log[p], "exec") <= 1
          /\ result[p].status = "error" => pc[p] = "failed")
  /\ [][\A p \in Callers :
          (pc[p] = "failed" /\ nreq'[p] = nreq[p])
            => /\ pc'[p] = "failed"
               /\ log'[p] = log[p]
               /\ loc'[p] = loc[p]
               /\ result'[p] = result[p]
               /\ files' = files]_vars

\* C17 witness: an invocation has failed after its audit run, at the write
\* of the cache file, with one DNS resolution and one run in its log.
C17_Witness ==
  \E p \in Callers :
    /\ pc[p] = "failed"
    /\ Count(log[p], "dns") = 1
    /\ Count(log[p], "exec") = 1
    /\ InLog(p, "writeFile")
    /\ result[p].message[1] = ExecFailedPrefix

\* The cache files among the paths of a file system.
IsCacheFile(path) == path[2][1] = "lighthouse-cache-"

CacheFilesAtStart(p) == {q \in DOMAIN filesAtStart[p] : IsCacheFile(q)}

\* C18: during a call no cache file that was there when the call began is
\* deleted; a non-forced request whose key had a readable, parseable entry
\* leaves that entry as it was; and a parseable entry differs from what it
\* was only when the call has completed the write of a run for that key,
\* and then it holds that run's complete report.
C18_EntriesOnlyReplacedWhole ==
  \A p \in Callers :
    pc[p] # "idle" =>
      /\ \A q \in CacheFilesAtStart(p) : q \in DOMAIN files
      /\ (~Forced(p) /\ ValidRequest(p) /\ ~UnusableEntry(EntryAtStart(p)))
            => FileAt(files, cachePathOf(options[p])) = EntryAtStart(p)
      /\ \A q \in CacheFilesAtStart(p) :
            (JSONparse(filesAtStart[p][q]).ok /\ FileAt(files, q) # filesAtStart[p][q])
              => /\ q = loc[p].cachePath
                 /\ pc[p] \in {"unlink", "done"}
                 /\ files[q] = loc[p].reportContent
                 /\ JSONparse(files[q]).ok

\* C19: a call that has returned, from the cache or from a run, returns as
\* reportPath the file lighthouse-cache-<key>.json of the request's output
\* directory, <key> being the key of the request; that file exists, can be
\* read, and parses to the report the call returned.
C19_ReturnsCacheFile ==
  \A p \in Callers :
    pc[p] = "done" =>
      LET path == <<outputDirOf(options[p]),
                    <<"lighthouse-cache-", cacheKeyOf(options[p]), ".json">> >>
      IN /\ result[p].status = "ok"
         /\ result[p].reportPath = path
         /\ path \in DOMAIN files
         /\ readFileOk(files[path])
         /\ JSONparse(files[path]) = [ok |-> TRUE, value |-> result[p].report]

\* C19 witness: a second call has returned the report of the cache file,
\* and a first call had returned it from its own run.
C19_Witness ==
  \E p \in Callers :
    /\ pc[p] = "done" /\ nreq[p] = 2
    /\ result[p].fromCache
    /\ result[p].reportPath \in DOMAIN firstReport
    /\ files[result[p].reportPath] = JsonText(result[p].report)

\* C20: the options object a call was given is, at every point of the call
\* and after it, as the caller passed it; its categories array has the
\* same elements in the same order.
C20_OptionsUnmodified ==
  \A p \in Callers :
    pc[p] # "idle" =>
      /\ options[p] = loc[p].given
      /\ options[p].categories = loc[p].given.categories

\* The override of a locator call, expanded, is there and executable.
OverrideOk ==
  /\ fnArgs.customPath # <<>>
  /\ (IF fnArgs.customPath[1] = "~" THEN HomeDir \o Tail(fnArgs.customPath)
      ELSE fnArgs.customPath) \in fnArgs.env.executable

CandidateHits ==
  {i \in 1..Len(potentialPaths) : potentialPaths[i] \in fnArgs.env.executable}

WhichGood ==
  /\ fnArgs.env.whichOk
  /\ fnArgs.env.whichOut # <<>>
  /\ fnArgs.env.whichOut \in fnArgs.env.executable

\* C21: when findLighthousePath has returned, its result is that of the
\* first succeeding strategy in the order override, candidate list, `which`,
\* version probe; a valid override is returned after the one probe of it,
\* an invalid override is followed by further probes, the result is null
\* exactly when all four strategies fail, and it is the value the pipeline
\* receives from the locator.
C21_FirstSucceedingStrategy ==
  fnRes.stage = "done" =>
    /\ fnRes.result =
         IF OverrideOk THEN HomeDir \o Tail(fnArgs.customPath)
         ELSE IF CandidateHits # {}
           THEN potentialPaths[CHOOSE i \in CandidateHits :
                                 \A j \in CandidateHits : i <= j]
         ELSE IF WhichGood THEN fnArgs.env.whichOut
         ELSE IF fnArgs.env.versionOk THEN BareName
         ELSE NotFound
    /\ OverrideOk => fnRes.probes = << <<"access", fnRes.result>> >>
    /\ (fnArgs.customPath # <<>> /\ ~OverrideOk) => Len(fnRes.probes) > 1
    /\ fnRes.result = NotFound
         <=> (~OverrideOk /\ CandidateHits = {} /\ ~WhichGood
              /\ ~fnArgs.env.versionOk)
    /\ fnRes.result = findLighthousePath(fnArgs.customPath, fnArgs.env)

\* C21 witness: an override that is not executable was given, no candidate
\* exists, and the locator has returned the path `which lighthouse` printed,
\* after probing the override, the six candidates and that path.
C21_Witness ==
  /\ fnRes.stage = "done"
  /\ fnArgs.customPath = CustomLighthousePath
  /\ ~OverrideOk
  /\ fnRes.result = WhichPath
  /\ Len(fnRes.probes) = 9

\* C22: every call ReportLoader has started since Re-analyze was triggered
\* carries force = true, and the report displayed after Re-analyze is not
\* one returned from the cache.
C22_ReanalyzeForcesEveryCall ==
  /\ \A i \in 1..Len(fnRes.calls) :
       fnRes.calls[i].afterReanalyze => fnRes.calls[i].force
  /\ (fnRes.reanalyzed /\ LoaderView(fnRes) = "report")
       => fnRes.calls[Len(fnRes.calls)].outcome # "cache"

\* C23: what a cache lookup has read of the file of its key is a complete
\* entry, old or new, never a file another run is in the middle of writing.
C23_NoPartialRead ==
  \A p \in Callers :
    loc[p].cached # <<"unread">> => JSONparse(loc[p].cached).ok

\* A call has returned the report of its own run.
RanAndReturned(p) == pc[p] = "done" /\ ~result[p].fromCache

\* C24: when two runs for the same key have both succeeded, the cache file
\* of the key parses and holds the complete report of one of them.
C24_LastWriterWins ==
  \A p, q \in Callers :
    (p # q /\ RanAndReturned(p) /\ RanAndReturned(q)
     /\ loc[p].cachePath = loc[q].cachePath)
      => /\ JSONparse(FileAt(files, loc[p].cachePath)).ok
         /\ FileAt(files, loc[p].cachePath)
              \in {JsonText(result[p].report), JsonText(result[q].report)}

\* A call between the naming of its temporary file and its end.
InFlight(p) == pc[p] \in {"exec", "readTemp", "write", "writing", "unlink"}

\* C25: two runs in flight never have the same temporary path, and the
\* report a run returns and stores is the artifact its own process wrote.
C25_OwnArtifactStored ==
  /\ \A p, q \in Callers :
       (p # q /\ InFlight(p) /\ InFlight(q))
         => loc[p].tempReportPath # loc[q].tempReportPath
  /\ \A p \in Callers :
       RanAndReturned(p) => JsonText(result[p].report) = loc[p].artifact

\* C26: a call returns the report of a run only if its process exited with
\* code 0 and left the artifact at the output path; a call whose process
\* exited with code 0 without an artifact fails with the execution error
\* carrying the read failure, has issued no write of the cache file, and
\* the cache file of its key is as it was when the call began.
C26_SuccessNeedsArtifact ==
  \A p \in Callers :
    /\ RanAndReturned(p)
         => /\ loc[p].exit = "ok"
            /\ loc[p].artifact # Absent
            /\ JSONparse(loc[p].artifact).ok
    /\ (loc[p].exit = "ok" /\ loc[p].artifact = Absent)
         => /\ pc[p] \in {"readTemp", "failed"}
            /\ ~InLog(p, "writeFile")
            /\ CacheFileUntouched(p)
            /\ pc[p] = "failed"
                 => result[p].message
                      = <<ExecFailedPrefix, "ENOENT: no such file or directory">>

\* C26 witness: a forced call over a parseable entry has failed because
\* its process exited with code 0 and left no artifact; the entry is as it
\* was.
C26_Witness ==
  \E p \in Callers :
    /\ pc[p] = "failed"
    /\ loc[p].exit = "ok" /\ loc[p].artifact = Absent
    /\ JSONparse(EntryAtStart(p)).ok
    /\ FileAt(files, cachePathOf(options[p])) = EntryAtStart(p)

\* C27: when a call terminates, with a report or with any error, the
\* temporary artifact file it named is no longer in the output directory.
C27_NoTempFileRemains ==
  \A p \in Callers :
    (Terminal(p) /\ loc[p].tempReportPath # <<>>)
      => loc[p].tempReportPath \notin DOMAIN files

\* C28: every call that has begun eventually reaches a terminal state, with
\* a report or with one error, when DNS resolution and file operations
\* complete and the audit process is killed at its timeout.
C28_EveryCallTerminates ==
  \A p \in SeqCallers : (pc[p] \notin {"idle", "done", "failed"}) ~> Terminal(p)

OmitsDefaults(o) == o.device = Undefined /\ o.categories = None

GivesDefaults(o) ==
  /\ o.device = "mobile"
  /\ o.categories # None
  /\ IsPermutation(o.categories[1],
                   <<catPerformance, catAccessibility, catBestPractices, catSeo>>)

\* C29: a request that omits device and categories gets the same key as a
\* request for the same URL that gives device mobile and the four
\* categories in any order, and with the same output path the same cache
\* file; two requests that differ only in force, override path and output
\* path get the same key.
C29_DefaultsShareKey ==
  fnRes # <<>> =>
    /\ (OmitsDefaults(fnArgs[1]) /\ GivesDefaults(fnArgs[2])
        /\ fnArgs[1].url = fnArgs[2].url)
         => /\ fnRes[1].cacheKey = fnRes[2].cacheKey
            /\ fnArgs[1].outputPath = fnArgs[2].outputPath
                 => fnRes[1].cachePath = fnRes[2].cachePath
    /\ (/\ fnArgs[1].url = fnArgs[2].url
        /\ fnArgs[1].device = fnArgs[2].device
        /\ fnArgs[1].categories = fnArgs[2].categories)
         => fnRes[1].cacheKey = fnRes[2].cacheKey

\* C29 witness: the keys are computed for a request that omits device and
\* categories and for a forced request with an override path and another
\* output path that lists mobile and the four categories in an order that
\* is neither the default order nor the sorted one.
C29_Witness ==
  /\ fnRes # <<>>
  /\ OmitsDefaults(fnArgs[1]) /\ GivesDefaults(fnArgs[2])
  /\ fnArgs[1].url = fnArgs[2].url
  /\ fnArgs[2].categories[1] # DefaultCategories
  /\ fnArgs[2].categories[1] # SortStrings(DefaultCategories)
  /\ fnArgs[2].force = Some(TRUE)
  /\ fnArgs[2].lighthousePath # <<>>
  /\ fnArgs[2].outputPath # fnArgs[1].outputPath
  /\ fnRes[1].cacheKey = fnRes[2].cacheKey
  /\ fnRes[1].cachePath # fnRes[2].cachePath

\* The tool has completed its latest call.
ToolCompleted == nreq["c1"] > 0 /\ Len(fnRes) = nreq["c1"]

ToolNeverThrows ==
  \A i \in 1..Len(fnRes) :
    /\ ~fnRes[i].thrown
    /\ \/ /\ fnRes[i].value.status = "success"
          /\ Len(fnRes[i].value.scores) = 4 /\ Len(fnRes[i].value.metrics) = 4
       \/ /\ fnRes[i].value.status = "error"
          /\ fnRes[i].value.message # <<>>

ToolNeverForces == nreq["c1"] > 0 => ~Forced("c1") /\ options["c1"].force = None

ToolReusesEntry ==
  (ToolCompleted /\ ValidRequest("c1")
   /\ JSONparse(FileAt(filesAtStart["c1"], cachePathOf(options["c1"]))).ok)
    => /\ result["c1"].status = "ok"
       /\ result["c1"].fromCache
       /\ JsonText(result["c1"].report)
            = FileAt(filesAtStart["c1"], cachePathOf(options["c1"]))
       /\ ~InLog("c1", "exec")

\* C30: the tool never completes by throwing: for every outcome of
\* runLighthouseAudit it returns a success value with scores and metrics or
\* an error value with a message; it never asks for force, and a call that
\* begins with a parseable cache file for its key returns that entry
\* without a run.
C30_ToolReturnsAndReusesCache ==
  /\ ToolNeverThrows
  /\ ToolNeverForces
  /\ ToolReusesEntry

====
